---- MODULE Spec2Model ----
(***************************************************************************)
(* MailChat (src/app.py): the mail synchronisation and reconciliation      *)
(* engine.  sync_account polls a mailbox above a persisted watermark,      *)
(* classifies each item (receipt, noise, normal), stores normal items as   *)
(* inbound messages and commits the watermark; send_message dispatches a   *)
(* message through smtp_send_with_security and stores it as outbound;      *)
(* send_group_message fans a message out over a group's members.           *)
(*                                                                         *)
(* Every db_fetch_* / db_execute call is one critical section (DB_LOCK),   *)
(* so every store access is one atomic step of the calling worker.  The    *)
(* HTTP server is threaded: calls of different requests interleave.        *)
(***************************************************************************)
EXTENDS Integers, Sequences, FiniteSets, TLC

\* Python None / SQL NULL.
NULL == "NULL"

----------------------------------------------------------------------------
(* Bounds of the model. *)

\* Highest UID the mailbox ever assigns (number of delivered items).
MaxUid == 2
\* Number of engine calls (sync, send, group send) started in one behaviour.
MaxCalls == 2

----------------------------------------------------------------------------
(* Program constants. *)

\* uids[-200:]
FETCH_LIMIT == 200
\* port == 465
SSL_PORT == 465

Workers == {1, 2}
\* The accounts table holds one account, id 1; 0 is an id no account has.
Accounts == {1}
AccountIds == {0, 1}
ACCOUNT_EMAIL == "me@example.com"

\* DEFAULT_SETTINGS, the keys the engine reads.
DEFAULT_SETTINGS ==
  [filter_noreply |-> "1", filter_info_addresses |-> "1",
   filter_promotions |-> "1", strip_replies |-> "1"]

\* setting_bool: str(value).strip().lower() in {"1","true","yes","on"}
setting_bool(settings, key) == settings[key] \in {"1", "true", "yes", "on"}

----------------------------------------------------------------------------
(* Text.  A text is a sequence of lines, a line a sequence of words; an    *)
(* HTML payload is a text whose words include tags.  The empty text <<>>   *)
(* stands for "" and for None alike: the code tests both with `not`.       *)

RECURSIVE DropBlankHead(_)
DropBlankHead(lines) ==
  IF lines = <<>> THEN <<>>
  ELSE IF Head(lines) = <<>> THEN DropBlankHead(Tail(lines)) ELSE lines

RECURSIVE DropBlankTail(_)
DropBlankTail(lines) ==
  IF lines = <<>> THEN <<>>
  ELSE IF lines[Len(lines)] = <<>>
       THEN DropBlankTail(SubSeq(lines, 1, Len(lines) - 1)) ELSE lines

\* str.strip() on a text: leading and trailing blank lines go.
Strip(lines) == DropBlankTail(DropBlankHead(lines))

\* decode_payload: the part's payload, decoded and stripped.
decode_payload(part) == Strip(part.payload)

\* str.lower() on the words the code compares case-insensitively.
Lower(w) ==
  CASE w = "On" -> "on"
    [] w = "Am" -> "am"
    [] w = "From:" -> "from:"
    [] w = "Von:" -> "von:"
    [] w = "Original-Message-ID:" -> "original-message-id:"
    [] w = "Read" -> "read"
    [] w = "Receipt" -> "receipt"
    [] w = "Sale" -> "sale"
    [] w = "Hello" -> "hello"
    [] OTHER -> w

\* The words the regex <[^>]+> removes.
IsTag(w) == w \in {"<p>", "</p>", "<b>", "</b>", "<br>"}

RECURSIVE Flatten(_)
Flatten(lines) ==
  IF lines = <<>> THEN <<>> ELSE Head(lines) \o Flatten(Tail(lines))

\* re.sub(r"<[^>]+>", " ", html); re.sub(r"\s+", " ", text).strip():
\* the words that are not tags, on one line.
StripTags(html) ==
  LET words == SelectSeq(Flatten(html), LAMBDA w : ~IsTag(w))
  IN IF words = <<>> THEN <<>> ELSE <<words>>

\* One of strip_quoted_text's cut_tokens matches line.strip().
IsQuoteLine(line) ==
  /\ line # <<>>
  /\ \/ Lower(line[1]) = "on" /\ Len(line) >= 3 /\ line[Len(line)] = "wrote:"
     \/ Lower(line[1]) = "am" /\ Len(line) >= 3 /\ line[Len(line)] = "schrieb:"
     \/ Lower(line[1]) \in {"from:", "von:"} /\ Len(line) >= 2
     \/ line[1] = ">"
     \/ line = <<"--", "Original", "Message", "--">>

strip_quoted_text(text) ==
  LET hits == {i \in 1..Len(text) : IsQuoteLine(text[i])}
      cut == IF hits = {} THEN Len(text) + 1
             ELSE CHOOSE i \in hits : \A j \in hits : i <= j
  IN Strip(SubSeq(text, 1, cut - 1))

HTML_TYPES == {"text/html", "application/xhtml+xml"}

\* A walk that passes over no part, for contrast with IsAttachmentDispo
\* in C26.
NeverAttachment(part) == FALSE

\* Lines 225-227: "attachment" in dispo.
IsAttachmentDispo(part) == part.dispo = "attachment"

\* The loop of extract_bodies over msg.walk(): acc is (text, html).
RECURSIVE WalkBodies(_, _)
WalkBodies(parts, acc) ==
  IF parts = <<>> THEN acc
  ELSE LET p == Head(parts)
           next ==
             IF IsAttachmentDispo(p) THEN acc
             ELSE IF p.ctype = "text/plain" /\ acc.text = <<>>
                  THEN [acc EXCEPT !.text = decode_payload(p)]
             ELSE IF p.ctype \in HTML_TYPES /\ acc.html = <<>>
                  THEN [acc EXCEPT !.html = decode_payload(p)]
             ELSE acc
       IN WalkBodies(Tail(parts), next)

IsMultipart(msg) == msg.ctype \in {"multipart/mixed", "multipart/alternative", "multipart/report"}

extract_bodies(msg, strip_replies) ==
  LET raw == IF IsMultipart(msg)
             THEN WalkBodies(msg.parts, [text |-> <<>>, html |-> <<>>])
             ELSE IF msg.ctype \in HTML_TYPES
                  THEN [text |-> <<>>, html |-> decode_payload(msg.parts[1])]
                  ELSE [text |-> decode_payload(msg.parts[1]), html |-> <<>>]
      text1 == IF raw.text = <<>> /\ raw.html # <<>>
               THEN StripTags(raw.html) ELSE raw.text
      text2 == IF strip_replies /\ text1 # <<>>
               THEN strip_quoted_text(text1) ELSE text1
  IN [text |-> text2, html |-> raw.html]

\* extract_attachments: parts with a filename or an attachment disposition
\* and a non-empty payload.
extract_attachments(msg) ==
  IF ~IsMultipart(msg) THEN <<>>
  ELSE LET kept == SelectSeq(msg.parts, LAMBDA p :
                     /\ (p.filename # NULL \/ IsAttachmentDispo(p))
                     /\ p.payload # <<>>)
       IN [i \in 1..Len(kept) |->
             [name |-> IF kept[i].filename = NULL THEN "attachment" ELSE kept[i].filename,
              content_type |-> kept[i].ctype,
              size |-> Len(kept[i].payload)]]

----------------------------------------------------------------------------
(* Classification. *)

\* needle in line.lower(), for a one-word needle.
HasWord(line, w) == \E i \in 1..Len(line) : Lower(line[i]) = w

\* "read receipt" in subject_l
HasPhrase(line, w1, w2) ==
  \E i \in 1..(Len(line) - 1) : Lower(line[i]) = w1 /\ Lower(line[i + 1]) = w2

OMID_MARKER == "original-message-id:"

\* line.partition(":")[2].strip() for a line holding the marker.
OmidValue(line) ==
  LET k == CHOOSE i \in 1..Len(line) : Lower(line[i]) = OMID_MARKER
  IN IF k < Len(line) THEN line[k + 1] ELSE ""

\* is_mdn of maybe_process_read_receipt.
IsMdn(msg) ==
  LET body == extract_bodies(msg, FALSE).text
  IN \/ msg.ctype \in {"message/disposition-notification", "multipart/report"}
     \/ HasWord(msg.subject, "empfangsbestaetigung")
     \/ HasWord(msg.subject, "lesebestaetigung")
     \/ HasPhrase(msg.subject, "read", "receipt")
     \/ \E i \in 1..Len(body) : HasWord(body[i], OMID_MARKER)
     \/ IsMultipart(msg) /\ \E i \in 1..Len(msg.parts) : msg.parts[i].filename = "mdn.txt"

\* candidates of maybe_process_read_receipt: the header first, then the
\* marker lines of the body in order.
Candidates(msg) ==
  LET body == extract_bodies(msg, FALSE).text
      marked == SelectSeq(body, LAMBDA l : HasWord(l, OMID_MARKER) /\ OmidValue(l) # "")
  IN (IF msg.omid # NULL THEN <<msg.omid>> ELSE <<>>)
     \o [i \in 1..Len(marked) |-> OmidValue(marked[i])]

\* An address as the regex sees it: words and the separators between them.
Lexemes(addr) ==
  CASE addr = "alice@example.com" -> <<"alice", "@", "example", ".", "com">>
    [] addr = "bob@example.com" -> <<"bob", "@", "example", ".", "com">>
    [] addr = "noreply@example.com" -> <<"noreply", "@", "example", ".", "com">>
    [] addr = "noreply-shop@example.com" -> <<"noreply", "-", "shop", "@", "example", ".", "com">>
    [] addr = "info@example.com" -> <<"info", "@", "example", ".", "com">>
    [] addr = "me@example.com" -> <<"me", "@", "example", ".", "com">>
    [] OTHER -> <<>>

SEPARATORS == {".", "_", "-"}

\* The alternatives of NOREPLY_RE's middle group, as lexemes.
NOREPLY_TOKENS ==
  {<<"noreply">>, <<"donotreply">>, <<"newsletter">>, <<"marketing">>,
   <<"mailer", "-", "daemon">>}
  \cup {<<"no", s, "reply">> : s \in SEPARATORS}
  \cup {<<"do", s, "not", t, "reply">> : <<s, t>> \in SEPARATORS \X SEPARATORS}

\* NOREPLY_RE.search(sender_l): a token bounded on each side by a
\* separator or the edge of the string ("@" is neither).
NOREPLY_RE(addr) ==
  LET lx == Lexemes(addr)
  IN \E tok \in NOREPLY_TOKENS : \E i \in 1..Len(lx) :
       /\ i + Len(tok) - 1 <= Len(lx)
       /\ SubSeq(lx, i, i + Len(tok) - 1) = tok
       /\ (i = 1 \/ lx[i - 1] \in SEPARATORS)
       /\ (i + Len(tok) - 1 = Len(lx) \/ lx[i + Len(tok)] \in SEPARATORS)

PROMO_WORDS == {"newsletter", "angebot", "sale", "rabatt", "unsubscribe", "werbung", "promo"}

PROMO_SUBJECT_RE(subject) == \E w \in PROMO_WORDS : HasWord(subject, w)

StartsWithInfo(addr) == Lexemes(addr) # <<>> /\ SubSeq(Lexemes(addr), 1, 2) = <<"info", "@">>

\* A filter without the no-reply rule, for contrast with should_skip_message
\* in C5.
should_skip_message_no_noreply(sender, subject, msg, settings) ==
  \/ setting_bool(settings, "filter_info_addresses") /\ StartsWithInfo(sender)
  \/ /\ setting_bool(settings, "filter_promotions")
     /\ \/ PROMO_SUBJECT_RE(subject)
        \/ msg.list_id # ""
        \/ msg.precedence \in {"bulk", "list", "junk"}
        \/ msg.auto_submitted \notin {"", "no"}

should_skip_message(sender, subject, msg, settings) ==
  \/ setting_bool(settings, "filter_noreply") /\ NOREPLY_RE(sender)
  \/ setting_bool(settings, "filter_info_addresses") /\ StartsWithInfo(sender)
  \/ /\ setting_bool(settings, "filter_promotions")
     /\ \/ PROMO_SUBJECT_RE(subject)
        \/ msg.list_id # ""
        \/ msg.precedence \in {"bulk", "list", "junk"}
        \/ msg.auto_submitted \notin {"", "no"}

\* What the loop of sync_account decides about a parsed item that is no
\* receipt, before it touches the store: "skip" or "store".
Classify(msg, settings) ==
  LET b == extract_bodies(msg, setting_bool(settings, "strip_replies"))
  IN IF msg.from = "" \/ msg.from = ACCOUNT_EMAIL THEN "skip"
     ELSE IF should_skip_message(msg.from, msg.subject, msg, settings) THEN "skip"
     ELSE IF b.text = <<>> /\ b.html = <<>> /\ extract_attachments(msg) = <<>> THEN "skip"
     ELSE "store"

----------------------------------------------------------------------------
(* The mailbox's items, as message_from_bytes parses them.  from and name  *)
(* are parse_from_header's result (the address lower-cased).               *)

TextPart(lines) == [ctype |-> "text/plain", dispo |-> "", filename |-> NULL, payload |-> lines]

HtmlPart(lines) == [ctype |-> "text/html", dispo |-> "", filename |-> NULL, payload |-> lines]

BaseMail ==
  [mid |-> NULL, from |-> "alice@example.com", name |-> NULL, subject |-> <<"Hello">>,
   ctype |-> "text/plain", parts |-> <<TextPart(<<<<"hi">>>>)>>, omid |-> NULL,
   list_id |-> "", precedence |-> "", auto_submitted |-> "", in_reply_to |-> NULL]

\* A part that is a file: no text, an attachment disposition and a payload.
FilePart ==
  [ctype |-> "application/pdf", dispo |-> "attachment", filename |-> "a.pdf",
   payload |-> <<<<"%PDF">>>>]

MailKeys == {"normal", "noid", "noreply", "receipt", "receipt_noise", "empty"}

Mail(k) ==
  CASE k = "normal" -> [BaseMail EXCEPT !.mid = "m1@x", !.name = "Alice"]
    [] k = "noid" -> BaseMail
    [] k = "noreply" -> [BaseMail EXCEPT !.mid = "m2@x", !.from = "noreply-shop@example.com"]
    [] k = "receipt" ->
         [BaseMail EXCEPT !.mid = "m3@x", !.ctype = "multipart/report", !.omid = "w1@mta",
            !.parts = <<TextPart(<<<<"Your", "message", "was", "read">>>>),
                        [ctype |-> "message/disposition-notification", dispo |-> "",
                         filename |-> NULL, payload |-> <<<<"Disposition:", "displayed">>>>]>>]
    [] k = "receipt_noise" ->
         [BaseMail EXCEPT !.mid = "m4@x", !.from = "noreply-shop@example.com",
            !.subject = <<"Read", "Receipt">>, !.list_id = "announce.example.com",
            !.parts = <<TextPart(<<<<"Original-Message-ID:", "w1@mta">>>>)>>]
    [] k = "empty" -> [BaseMail EXCEPT !.mid = "m5@x", !.parts = <<TextPart(<<>>)>>]
    [] k = "attach" ->
         [BaseMail EXCEPT !.mid = "m6@x", !.ctype = "multipart/mixed",
                          !.parts = <<FilePart>>]
    [] k = "attach_noid" ->
         [BaseMail EXCEPT !.ctype = "multipart/mixed", !.parts = <<FilePart>>]
    [] k = "two_texts" ->
         [BaseMail EXCEPT !.mid = "m7@x", !.ctype = "multipart/alternative",
            !.parts = <<TextPart(<<<<"first">>>>), TextPart(<<<<"second">>>>),
                        HtmlPart(<<<<"<p>", "one", "</p>">>>>),
                        HtmlPart(<<<<"<p>", "two", "</p>">>>>)>>]
    [] k = "blank_first" ->
         [BaseMail EXCEPT !.mid = "m8@x", !.ctype = "multipart/mixed",
            !.parts = <<TextPart(<<<<>>>>), TextPart(<<<<"second">>>>),
                        HtmlPart(<<>>), HtmlPart(<<<<"<p>", "two", "</p>">>>>)>>]
    [] k = "attached_text" ->
         [BaseMail EXCEPT !.mid = "m9@x", !.ctype = "multipart/mixed",
            !.parts = <<[TextPart(<<<<"note">>>>) EXCEPT !.dispo = "attachment",
                                                        !.filename = "note.txt"],
                        TextPart(<<<<"body">>>>)>>]

----------------------------------------------------------------------------
(* State. *)

VARIABLES
  accounts,        \* accounts table: account id -> [smtp_security, smtp_port]
  settings,        \* settings table, the keys of DEFAULT_SETTINGS
  sync_state,      \* sync_state table: set of [account_id, last_uid]
  messages,        \* messages table: set of rows
  next_id,         \* messages.id AUTOINCREMENT: the next id
  contacts,        \* contacts table: set of [account_id, email, display_name]
  group_messages,  \* group_messages table: set of [account_id, group_id]
  mailbox,         \* the account's INBOX: item keys, the UID is the index
  expunged,        \* the UIDs whose items were deleted from the INBOX
  clock,           \* utc_now_iso(), as far as the store keeps it (read_at)
  wk,              \* per worker thread: the call it runs and its locals
  calls,           \* number of calls started
  quiet            \* history, per account: "yes" when a poll whose every server
                   \* command succeeded has returned and nothing else has
                   \* changed the mailbox, the settings or the store since it
                   \* began; "running" during such a poll

vars == <<accounts, settings, sync_state, messages, next_id, contacts,
          group_messages, mailbox, expunged, clock, wk, calls, quiet>>

\* SELECT last_uid FROM sync_state WHERE account_id=?; 0 without a row.
LastUid(a) ==
  IF \E r \in sync_state : r.account_id = a
  THEN (CHOOSE r \in sync_state : r.account_id = a).last_uid ELSE 0

IdleWorker ==
  [kind |-> "none", pc |-> "idle", account |-> 0, err |-> "",
   \* sync_account
   settings |-> DEFAULT_SETTINGS, last_uid |-> 0, uids |-> <<>>, max_uid |-> 0,
   saved |-> 0, uid |-> 0, cand |-> <<>>, hit |-> 0, session |-> "none",
   failing |-> FALSE,
   \* history of the poll: a command was answered with a status other than
   \* OK, the highest UID of the batch, the items fetched and parsed, and
   \* whether the worker's previous poll of the account raised after saving,
   \* the receipts its previous poll had fetched and parsed when it returned
   rejected |-> FALSE, top |-> 0, routed |-> {}, replay |-> FALSE, seen |-> {},
   \* send_message
   to |-> "", arg |-> 0, attempts |-> <<>>, cause |-> "", row |-> 0,
   \* send_group_message
   group |-> 0, members |-> <<>>, tried |-> <<>>, logged |-> FALSE, glog0 |-> 0,
   \* history of the call: store writes of the current send_message, the
   \* next message id when the call began, whether the account was quiet then
   writes |-> 0, next0 |-> 0, idem |-> FALSE]

\* POST /api/accounts: smtp_security defaults to "auto".
DefaultConfig == [smtp_security |-> "auto", smtp_port |-> 587]

AccountConfigs ==
  {[smtp_security |-> "auto", smtp_port |-> 587],
   [smtp_security |-> "auto", smtp_port |-> 465],
   [smtp_security |-> "ssl", smtp_port |-> 465],
   [smtp_security |-> "starttls", smtp_port |-> 587],
   [smtp_security |-> "plain", smtp_port |-> 25]}

InitStore ==
  /\ settings = DEFAULT_SETTINGS
  /\ sync_state = {}
  /\ messages = {}
  /\ next_id = 1
  /\ contacts = {}
  /\ group_messages = {}
  /\ mailbox = <<>>
  /\ expunged = {}
  /\ clock = 1
  /\ wk = [w \in Workers |-> IdleWorker]
  /\ calls = 0
  /\ quiet = [a \in Accounts |-> "no"]

\* After init_db and the account's creation with the default transport
\* configuration.
Init == InitStore /\ accounts = [a \in Accounts |-> DefaultConfig]

\* The same, the account created with any transport configuration.
InitSend == InitStore /\ accounts \in [Accounts -> AccountConfigs]

----------------------------------------------------------------------------
(* The environment. *)

\* The mail server appends an item to the INBOX under the next UID.
Deliver(k) ==
  /\ Len(mailbox) < MaxUid
  /\ mailbox' = Append(mailbox, k)
  /\ quiet' = [a \in Accounts |-> "no"]
  /\ UNCHANGED <<accounts, settings, sync_state, messages, next_id, contacts,
                 group_messages, expunged, clock, wk, calls>>

\* Another client of the mailbox deletes an item.
Expunge(u) ==
  /\ u \in 1..Len(mailbox)
  /\ u \notin expunged
  /\ expunged' = expunged \cup {u}
  /\ quiet' = [a \in Accounts |-> "no"]
  /\ UNCHANGED <<accounts, settings, sync_state, messages, next_id, contacts,
                 group_messages, mailbox, clock, wk, calls>>

\* POST /api/settings with one recognised key.
PostSettings(key, value) ==
  /\ settings[key] # value
  /\ settings' = [settings EXCEPT ![key] = value]
  /\ quiet' = [a \in Accounts |-> "no"]
  /\ UNCHANGED <<accounts, sync_state, messages, next_id, contacts,
                 group_messages, mailbox, expunged, clock, wk, calls>>

----------------------------------------------------------------------------
(* sync_account. *)

Free(w) == wk[w].pc \in {"idle", "done", "error"}

\* Lines 381-387: the account, the settings and the watermark are read.
SyncStart(w, a) ==
  /\ Free(w)
  /\ calls < MaxCalls
  /\ calls' = calls + 1
  /\ wk' = [wk EXCEPT ![w] =
       IF a \notin Accounts
       THEN [IdleWorker EXCEPT !.kind = "sync", !.account = a,
                               !.pc = "error", !.err = "Konto wurde nicht gefunden."]
       ELSE [IdleWorker EXCEPT !.kind = "sync", !.account = a,
                               !.pc = "connect", !.settings = settings,
                               !.last_uid = LastUid(a), !.next0 = next_id,
                               !.idem = (quiet[a] = "yes"),
                               !.replay = /\ wk[w].kind = "sync"
                                          /\ wk[w].account = a
                                          /\ wk[w].pc = "error"
                                          /\ wk[w].saved > 0,
                               !.seen = IF /\ wk[w].kind = "sync"
                                           /\ wk[w].account = a
                                           /\ wk[w].pc = "done"
                                        THEN wk[w].seen ELSE {}]]
  /\ quiet' = [x \in Accounts |-> IF x = a THEN "running" ELSE quiet[x]]
  /\ UNCHANGED <<accounts, settings, sync_state, messages, next_id, contacts,
                 group_messages, mailbox, expunged, clock>>

\* "UID n:*": the UIDs from lo up.  RFC 3501 6.4.8 reads n:* as the range
\* between n and the highest UID in either order, so a server answers a
\* range above the highest UID with that UID (wrap); some do not.
SearchUids(lo, wrap) ==
  LET present == (1..Len(mailbox)) \ expunged
      hits == {u \in present : u >= lo}
      all == IF hits = {} /\ wrap /\ present # {}
             THEN {CHOOSE u \in present : \A v \in present : v <= u} ELSE hits
  IN [i \in 1..Cardinality(all) |->
        CHOOSE u \in all : Cardinality({v \in all : v < u}) = i - 1]

\* A loop over the whole answer, for contrast with LastN in C21.
WholeAnswer(seq, n) == seq

\* uids[-200:]
LastN(seq, n) == IF Len(seq) <= n THEN seq ELSE SubSeq(seq, Len(seq) - n + 1, Len(seq))

\* A server command of the account's poll failed.
Disturbed(a) == [quiet EXCEPT ![a] = "no"]

\* A poll that takes a failed login or select for a session it can go on
\* to close and return from, for contrast with AfterConnect in C13.
AfterConnectSwallowed(r, outcome) ==
  CASE outcome = "ok" -> [r EXCEPT !.pc = "search", !.session = "open"]
    [] outcome = "connect" -> [r EXCEPT !.pc = "error", !.err = "connect"]
    [] OTHER -> [r EXCEPT !.pc = "logout", !.session = "open", !.err = outcome]

\* Line 389 and lines 391-392: the session is opened, then login and
\* select.  The constructor raises outside the try (no logout); login and
\* select raise inside it.
AfterConnect(r, outcome) ==
  CASE outcome = "ok" -> [r EXCEPT !.pc = "search", !.session = "open"]
    [] outcome = "connect" -> [r EXCEPT !.pc = "error", !.err = "connect"]
    [] OTHER -> [r EXCEPT !.pc = "logout", !.session = "open", !.failing = TRUE,
                          !.err = outcome]

SyncConnect(w) ==
  /\ wk[w].pc = "connect"
  /\ \E outcome \in {"ok", "connect", "login", "select"} :
       /\ wk' = [wk EXCEPT ![w] = AfterConnect(@, outcome)]
       /\ quiet' = IF outcome = "ok" THEN quiet ELSE Disturbed(wk[w].account)
  /\ UNCHANGED <<accounts, settings, sync_state, messages, next_id, contacts,
                 group_messages, mailbox, expunged, clock, calls>>

\* A loop that starts its maximum at zero rather than at the watermark it
\* read, for contrast with InitialMaxUid in C1.
InitialMaxUidZero(last_uid) == 0

\* Line 403: max_uid = last_uid.
InitialMaxUid(last_uid) == last_uid

\* What client.uid(...) can end in: the status OK, another status (NO), or
\* an exception of imaplib (a BAD answer, a lost connection).
STATUSES == {"OK", "NO", "raise"}

\* Lines 396-404: a non-OK status and an empty answer both return 0;
\* otherwise the loop runs over the last FETCH_LIMIT UIDs of the answer.
AfterSearch(r, status, uids) ==
  CASE status = "raise" -> [r EXCEPT !.pc = "logout", !.failing = TRUE, !.err = "search"]
    [] status = "NO" -> [r EXCEPT !.pc = "logout", !.rejected = TRUE]
    [] OTHER ->
         IF uids = <<>> THEN [r EXCEPT !.pc = "logout"]
         ELSE [r EXCEPT !.pc = "item", !.saved = 0,
                        !.max_uid = InitialMaxUid(r.last_uid),
                        !.uids = LastN(uids, FETCH_LIMIT),
                        !.top = uids[Len(uids)]]

\* Lines 394-395: the UID search.
SyncSearch(w) ==
  /\ wk[w].pc = "search"
  /\ \E status \in STATUSES, wrap \in BOOLEAN :
       LET lo == IF wk[w].last_uid > 0 THEN wk[w].last_uid + 1 ELSE 1
       IN /\ wk' = [wk EXCEPT ![w] = AfterSearch(@, status, SearchUids(lo, wrap))]
          /\ quiet' = IF status = "OK" THEN quiet ELSE Disturbed(wk[w].account)
  /\ UNCHANGED <<accounts, settings, sync_state, messages, next_id, contacts,
                 group_messages, mailbox, expunged, clock, calls>>

\* A loop that never counts a UID into its maximum, for contrast with
\* CountUid in C20.
CountUidNever(max_uid, uid) == max_uid

\* Lines 405-407: if uid_int > max_uid: max_uid = uid_int.
CountUid(max_uid, uid) == IF uid > max_uid THEN uid ELSE max_uid

\* `continue`: on to the next uid of the loop.
NextItem(r) == [r EXCEPT !.pc = "item", !.uids = Tail(r.uids), !.cand = <<>>, !.hit = 0]

\* A missing payload treated as a failure of the call, for contrast with
\* Unfetched in C22.
UnfetchedAborts(r) == [r EXCEPT !.pc = "logout", !.failing = TRUE, !.err = "payload"]

\* Lines 409-413: a fetch answered with a status other than OK, or without
\* a raw payload, `continue`s.
Unfetched(r) == NextItem(r)

\* Lines 404-429 up to the first store access: the uid is counted into
\* max_uid, the item fetched (an expunged item has no payload), parsed and
\* classified.  After the loop the call goes on to commit the watermark.
SyncItem(w) ==
  /\ wk[w].pc = "item"
  /\ IF wk[w].uids = <<>>
     THEN wk' = [wk EXCEPT ![w].pc = "commit"] /\ UNCHANGED quiet
     ELSE \E status \in STATUSES :
       LET uid == Head(wk[w].uids)
           fetched == status = "OK" /\ uid \notin expunged
           r == [wk[w] EXCEPT !.uid = uid, !.max_uid = CountUid(@, uid),
                              !.rejected = @ \/ status = "NO",
                              !.routed = IF fetched THEN @ \cup {uid} ELSE @]
           msg == Mail(mailbox[uid])
       IN /\ wk' = [wk EXCEPT ![w] =
               IF status = "raise"
               THEN [r EXCEPT !.pc = "logout", !.failing = TRUE, !.err = "fetch"]
               ELSE IF ~fetched THEN Unfetched(r)
               ELSE IF IsMdn(msg) THEN [r EXCEPT !.pc = "receipt", !.cand = Candidates(msg)]
               ELSE IF Classify(msg, r.settings) = "skip" THEN NextItem(r)
               ELSE [r EXCEPT !.pc = "contact"]]
          /\ quiet' = IF status = "OK" THEN quiet ELSE Disturbed(wk[w].account)
  /\ UNCHANGED <<accounts, settings, sync_state, messages, next_id, contacts,
                 group_messages, mailbox, expunged, clock, calls>>

\* SELECT id FROM messages WHERE account_id=? AND direction='outbound' AND
\* external_message_id=?  (a NULL external_message_id equals nothing).
FindOutbound(a, mid) ==
  {m \in messages : m.account_id = a /\ m.direction = "outbound"
                    /\ m.external_message_id # NULL /\ m.external_message_id = mid}

\* UPDATE messages SET delivery_status='read', read_at=COALESCE(read_at, ?)
\* WHERE id=?
MarkDelivered(id, now) ==
  {IF m.id = id
   THEN [m EXCEPT !.delivery_status = "read",
                  !.read_at = IF m.read_at = 0 THEN now ELSE m.read_at]
   ELSE m : m \in messages}

\* A receipt that matched nothing handed on to the filters and the store,
\* for contrast with Unmatched in C4.
UnmatchedFallsThrough(r, msg) ==
  IF Classify(msg, r.settings) = "skip" THEN NextItem(r)
  ELSE [r EXCEPT !.pc = "contact"]

\* Lines 303-304 and 416-417: a receipt that matched no message returns
\* True all the same, and the loop goes on to the next item.
Unmatched(r, msg) == NextItem(r)

\* Lines 294-304: one store access of the candidates loop per step, the
\* lookup of the next candidate or the update of the row it found.  With no
\* candidate left the receipt is dropped.
SyncReceipt(w) ==
  /\ wk[w].pc = "receipt"
  /\ LET r == wk[w] IN
     IF r.hit # 0
     THEN /\ messages' = MarkDelivered(r.hit, clock)
          /\ clock' = clock + 1
          /\ wk' = [wk EXCEPT ![w] = NextItem(r)]
     ELSE /\ UNCHANGED <<messages, clock>>
          /\ wk' = [wk EXCEPT ![w] =
               IF r.cand = <<>> THEN Unmatched(r, Mail(mailbox[r.uid]))
               ELSE LET found == FindOutbound(r.account, Head(r.cand))
                    IN IF found = {} THEN [r EXCEPT !.cand = Tail(r.cand)]
                       ELSE [r EXCEPT !.hit = (CHOOSE m \in found :
                                                 \A o \in found : m.id <= o.id).id]]
  /\ UNCHANGED <<accounts, settings, sync_state, next_id, contacts,
                 group_messages, mailbox, expunged, calls, quiet>>

\* upsert_contact, first statement: INSERT OR IGNORE INTO contacts.
InsertOrIgnoreContact(a, email, name) ==
  IF \E c \in contacts : c.account_id = a /\ c.email = email
  THEN contacts
  ELSE contacts \cup {[account_id |-> a, email |-> email, display_name |-> name]}

\* upsert_contact, second statement: UPDATE contacts SET display_name=?.
UpdateContactName(a, email, name) ==
  {IF c.account_id = a /\ c.email = email THEN [c EXCEPT !.display_name = name] ELSE c
   : c \in contacts}

\* Lines 334-337 as sync_account calls them (line 436): one statement per
\* step, the second only for a sender with a display name.
SyncContact(w) ==
  /\ wk[w].pc \in {"contact", "contact_name"}
  /\ LET r == wk[w]
         msg == Mail(mailbox[r.uid])
     IN IF r.pc = "contact"
        THEN /\ contacts' = InsertOrIgnoreContact(r.account, msg.from, msg.name)
             /\ wk' = [wk EXCEPT ![w] =
                  [r EXCEPT !.pc = IF msg.name # NULL THEN "contact_name" ELSE "insert"]]
        ELSE /\ contacts' = UpdateContactName(r.account, msg.from, msg.name)
             /\ wk' = [wk EXCEPT ![w] = [r EXCEPT !.pc = "insert"]]
  /\ UNCHANGED <<accounts, settings, sync_state, messages, next_id,
                 group_messages, mailbox, expunged, clock, calls, quiet>>

\* A store without the UNIQUE(account_id, external_message_id) constraint,
\* for contrast with Conflicts in C3.
NoConflicts(a, mid) == FALSE

\* UNIQUE(account_id, external_message_id): SQLite counts NULLs as distinct,
\* so a row without an identifier never conflicts.
Conflicts(a, mid) ==
  mid # NULL /\ \E m \in messages : m.account_id = a /\ m.external_message_id = mid

\* A new row of the messages table, with the defaults of the columns the
\* INSERT does not name: attachments_json NULL (<<>>), in_reply_to NULL,
\* delivery_status 'sent', is_read 0, read_at NULL (0).  src is history:
\* the UID of the item the row was made from (0: none).
NewRow(a, email, direction, body, html, mid, src) ==
  [id |-> next_id, account_id |-> a, contact_email |-> email, direction |-> direction,
   body |-> body, body_html |-> html, external_message_id |-> mid,
   attachments |-> <<>>, in_reply_to |-> NULL, delivery_status |-> "sent",
   is_read |-> 0, read_at |-> 0, src |-> src]

\* Lines 437-444 and 447-448: the INSERT; an IntegrityError skips the item.
SyncInsert(w) ==
  /\ wk[w].pc = "insert"
  /\ LET r == wk[w]
         msg == Mail(mailbox[r.uid])
         b == extract_bodies(msg, setting_bool(r.settings, "strip_replies"))
     IN IF Conflicts(r.account, msg.mid)
        THEN /\ wk' = [wk EXCEPT ![w] = NextItem(r)]
             /\ UNCHANGED <<messages, next_id>>
        ELSE /\ messages' = messages \cup
                  {NewRow(r.account, msg.from, "inbound", b.text, b.html, msg.mid, r.uid)}
             /\ next_id' = next_id + 1
             /\ wk' = [wk EXCEPT ![w] = [r EXCEPT !.pc = "update"]]
  /\ UNCHANGED <<accounts, settings, sync_state, contacts,
                 group_messages, mailbox, expunged, clock, calls, quiet>>

\* Line 445: UPDATE messages SET attachments_json=?, in_reply_to_message_id=?,
\* delivery_status='sent', is_read=0 WHERE account_id=? AND
\* external_message_id=?  (no row when the identifier is NULL).
SyncUpdate(w) ==
  /\ wk[w].pc = "update"
  /\ LET r == wk[w]
         msg == Mail(mailbox[r.uid])
     IN /\ messages' =
             {IF m.account_id = r.account /\ msg.mid # NULL /\ m.external_message_id = msg.mid
              THEN [m EXCEPT !.attachments = extract_attachments(msg),
                             !.in_reply_to = msg.in_reply_to,
                             !.delivery_status = "sent", !.is_read = 0]
              ELSE m : m \in messages}
        /\ wk' = [wk EXCEPT ![w] = NextItem([r EXCEPT !.saved = @ + 1])]
  /\ UNCHANGED <<accounts, settings, sync_state, next_id, contacts,
                 group_messages, mailbox, expunged, clock, calls, quiet>>

\* INSERT INTO sync_state ... ON CONFLICT(account_id) DO UPDATE SET last_uid
SetLastUid(a, uid) ==
  {r \in sync_state : r.account_id # a} \cup {[account_id |-> a, last_uid |-> uid]}

\* Lines 450-454: the watermark is persisted as max_uid.
SyncCommit(w) ==
  /\ wk[w].pc = "commit"
  /\ sync_state' = SetLastUid(wk[w].account, wk[w].max_uid)
  /\ wk' = [wk EXCEPT ![w].pc = "logout"]
  /\ UNCHANGED <<accounts, settings, messages, next_id, contacts,
                 group_messages, mailbox, expunged, clock, calls, quiet>>

\* A failed logout raised to the caller, for contrast with AfterLogout in
\* C23.
AfterLogoutRaises(r, logout_ok) ==
  [r EXCEPT !.session = "closed",
            !.pc = IF r.failing \/ ~logout_ok THEN "error" ELSE "done",
            !.uid = 0, !.settings = DEFAULT_SETTINGS,
            !.top = 0, !.routed = {},
            !.seen = IF r.failing THEN {}
                     ELSE {u \in r.routed : IsMdn(Mail(mailbox[u]))}]

\* Lines 455-459: logout has been issued and whatever it raised is passed
\* over; the call returns the count or raises what the try block raised.
AfterLogout(r, logout_ok) ==
  [r EXCEPT !.session = "closed",
            !.pc = IF r.failing THEN "error" ELSE "done",
            !.uid = 0, !.settings = DEFAULT_SETTINGS,
            !.top = 0, !.routed = {},
            !.seen = IF r.failing THEN {}
                     ELSE {u \in r.routed : IsMdn(Mail(mailbox[u]))}]

\* Lines 455-459: the finally block.
SyncLogout(w) ==
  /\ wk[w].pc = "logout"
  /\ \E logout_ok \in BOOLEAN :
       wk' = [wk EXCEPT ![w] = AfterLogout(@, logout_ok)]
  /\ quiet' = [quiet EXCEPT ![wk[w].account] = IF @ = "running" THEN "yes" ELSE "no"]
  /\ UNCHANGED <<accounts, settings, sync_state, messages, next_id, contacts,
                 group_messages, mailbox, expunged, clock, calls>>

----------------------------------------------------------------------------
(* smtp_send_with_security. *)

METHODS == {"ssl", "starttls", "plain"}

\* What one connection attempt can end in: success, an error the auto
\* loop catches (ssl.SSLError, smtplib.SMTPException, OSError; a timeout
\* is an OSError), or any other exception.
OUTCOMES == {"ok", "transport_error", "other_error"}

\* The two orders exchanged, for contrast with AutoMethods in C9.
AutoMethodsSwapped(port) ==
  IF port = SSL_PORT THEN <<"starttls", "ssl", "plain">>
  ELSE <<"ssl", "starttls", "plain">>

\* Line 370.
AutoMethods(port) ==
  IF port = SSL_PORT THEN <<"ssl", "starttls", "plain">>
  ELSE <<"starttls", "ssl", "plain">>

\* An except clause that catches every exception, for contrast with Caught
\* in C24.
CaughtAny(outcome) == outcome # "ok"

\* Line 375: except (ssl.SSLError, smtplib.SMTPException, OSError).
Caught(outcome) == outcome = "transport_error"

\* Lines 371-377: the attempts made, in order, and how the loop ends.
\* out gives each strategy's outcome should it be attempted.
RECURSIVE TryMethods(_, _, _)
TryMethods(methods, out, attempts) ==
  IF methods = <<>>
  THEN [attempts |-> attempts, result |-> "exhausted"]
  ELSE LET m == Head(methods)
           tried == Append(attempts, [method |-> m, outcome |-> out[m]])
       IN CASE out[m] = "ok" -> [attempts |-> tried, result |-> "ok"]
            [] Caught(out[m]) -> TryMethods(Tail(methods), out, tried)
            [] OTHER -> [attempts |-> tried, result |-> "raised"]

\* An aggregate that names the first error caught, for contrast with
\* LastError in C15.
FirstError(attempts) == attempts[1].method

\* Lines 371 and 376: last_error is overwritten by every error the loop
\* catches, so the ValueError of line 377 names the last one.  An error is
\* identified by the strategy that raised it.
LastError(attempts) == attempts[Len(attempts)].method

\* A dispatcher without its forced modes, for contrast with Forced in C16.
ForcedNever(security) == FALSE

\* Lines 363-368: ssl, starttls and plain call their strategy and return.
Forced(security) == security \in METHODS

\* Lines 340-377.  cause is the error the caller gets to see: the
\* strategy's own exception, or the one the ValueError of line 377 names.
smtp_send_with_security(account, out) ==
  IF Forced(account.smtp_security)
  THEN LET m == account.smtp_security
       IN [attempts |-> <<[method |-> m, outcome |-> out[m]]>>,
           result |-> IF out[m] = "ok" THEN "ok" ELSE "raised",
           cause |-> IF out[m] = "ok" THEN "" ELSE m]
  ELSE LET res == TryMethods(AutoMethods(account.smtp_port), out, <<>>)
       IN [attempts |-> res.attempts, result |-> res.result,
           cause |-> CASE res.result = "ok" -> ""
                       [] res.result = "exhausted" -> LastError(res.attempts)
                       [] OTHER -> res.attempts[Len(res.attempts)].method]

----------------------------------------------------------------------------
(* send_message. *)

\* base64.b64decode(data): the size of the decoded bytes, -1 when the
\* decoder raises (incorrect padding).
DecodedSize(data) ==
  CASE data = "" -> 0
    [] data = "aGk=" -> 2
    [] data = "abc" -> -1

\* The arguments the calls are made with (to_email already lower-cased).
SendArgs ==
  <<[to |-> "alice@example.com", body |-> <<<<"hi">>>>, is_html |-> FALSE,
     attachments |-> <<>>, reply_to |-> NULL],
    [to |-> "bob@example.com", body |-> <<<<"<p>", "hi", "</p>">>>>, is_html |-> TRUE,
     attachments |-> <<[name |-> "a.txt", content_type |-> "text/plain", data |-> "aGk="],
                       [name |-> "", content_type |-> "", data |-> ""]>>,
     reply_to |-> "m1@x"],
    [to |-> "alice@example.com", body |-> <<<<"hi">>>>, is_html |-> FALSE,
     attachments |-> <<[name |-> "b.bin", content_type |-> "text/plain", data |-> "abc"]>>,
     reply_to |-> NULL]>>

\* Lines 487-497: the manifest of the attachments that decode to bytes.
safe_attachments(atts) ==
  LET kept == SelectSeq(atts, LAMBDA a : DecodedSize(a.data) > 0)
  IN [i \in 1..Len(kept) |->
        [name |-> IF kept[i].name = "" THEN "attachment" ELSE kept[i].name,
         content_type |-> IF kept[i].content_type = "" THEN "application/octet-stream"
                          ELSE kept[i].content_type,
         size |-> DecodedSize(kept[i].data)]]

DecodeRaises(atts) == \E i \in 1..Len(atts) : DecodedSize(atts[i].data) < 0

\* Lines 463-497: the account is looked up and the message composed; r is
\* the caller's worker record.  The message gets no Message-ID header.
Compose(r, a, to, arg) ==
  IF a \notin Accounts
  THEN [r EXCEPT !.pc = "error", !.err = "Konto wurde nicht gefunden."]
  ELSE IF DecodeRaises(SendArgs[arg].attachments)
  THEN [r EXCEPT !.pc = "error", !.err = "binascii.Error"]
  ELSE [r EXCEPT !.pc = "dispatch", !.to = to, !.attempts = <<>>, !.cause = "",
                 !.row = 0, !.writes = 0]

\* send_message is called (POST /api/send).
SendStart(w, a, arg) ==
  /\ Free(w)
  /\ calls < MaxCalls
  /\ calls' = calls + 1
  /\ wk' = [wk EXCEPT ![w] =
       Compose([IdleWorker EXCEPT !.kind = "send", !.account = a,
                                  !.arg = arg, !.next0 = next_id],
               a, SendArgs[arg].to, arg)]
  /\ quiet' = [x \in Accounts |-> "no"]
  /\ UNCHANGED <<accounts, settings, sync_state, messages, next_id, contacts,
                 group_messages, mailbox, expunged, clock>>

\* A send_message that goes on to the store whatever the dispatch did, for
\* contrast with AfterDispatch in C8.
AfterDispatchPersists(r, result) == [r EXCEPT !.pc = "s_contact"]

\* A fan-out that goes on to the next member after a failed send, for
\* contrast with AfterDispatch in C10.
AfterDispatchContinues(r, result) ==
  IF result = "ok" THEN [r EXCEPT !.pc = "s_contact"]
  ELSE IF r.kind = "group" THEN [r EXCEPT !.pc = "g_loop", !.members = Tail(@)]
  ELSE [r EXCEPT !.pc = "error", !.err = "raised"]

\* Lines 499-500 and 531-532: after a successful dispatch send_message goes
\* on to the store; an exception of the dispatch leaves send_message, and
\* send_group_message's loop with it.
AfterDispatch(r, result) ==
  IF result = "ok" THEN [r EXCEPT !.pc = "s_contact"]
  ELSE [r EXCEPT !.pc = "error",
                 !.err = IF result = "exhausted" THEN "SMTP Versand fehlgeschlagen"
                         ELSE "raised"]

\* Line 499: the dispatch; any exception leaves send_message (and
\* send_group_message) at once.
SendDispatch(w) ==
  /\ wk[w].pc = "dispatch"
  /\ \E out \in [METHODS -> OUTCOMES] :
       LET res == smtp_send_with_security(accounts[wk[w].account], out)
       IN wk' = [wk EXCEPT ![w] =
            AfterDispatch([@ EXCEPT !.attempts = res.attempts,
                                    !.cause = res.cause,
                                    !.tried = Append(@, [to |-> wk[w].to,
                                                         ok |-> res.result = "ok"])],
                          res.result)]
  /\ UNCHANGED <<accounts, settings, sync_state, messages, next_id, contacts,
                 group_messages, mailbox, expunged, clock, calls, quiet>>

\* Line 500: upsert_contact(account_id, to_email, None), one statement.
SendContact(w) ==
  /\ wk[w].pc = "s_contact"
  /\ contacts' = InsertOrIgnoreContact(wk[w].account, wk[w].to, NULL)
  /\ wk' = [wk EXCEPT ![w].pc = "s_insert", ![w].writes = @ + 1]
  /\ UNCHANGED <<accounts, settings, sync_state, messages, next_id,
                 group_messages, mailbox, expunged, clock, calls, quiet>>

\* re.sub(r"<[^>]+>", " ", body).strip(): the tags go, the lines stay.
StripTagsKeepLines(body) ==
  Strip([i \in 1..Len(body) |-> SelectSeq(body[i], LAMBDA x : ~IsTag(x))])

\* Lines 502-508: the INSERT; external_message_id is msg["Message-ID"],
\* which is None, as nothing sets that header on the composed message.
SendInsert(w) ==
  /\ wk[w].pc = "s_insert"
  /\ LET r == wk[w]
         arg == SendArgs[r.arg]
     IN /\ messages' = messages \cup
             {NewRow(r.account, r.to, "outbound",
                     IF arg.is_html THEN StripTagsKeepLines(arg.body) ELSE arg.body,
                     IF arg.is_html THEN arg.body ELSE <<>>,
                     NULL, 0)}
        /\ next_id' = next_id + 1
        /\ wk' = [wk EXCEPT ![w] = [r EXCEPT !.pc = "s_update", !.row = next_id,
                                             !.writes = @ + 1]]
  /\ UNCHANGED <<accounts, settings, sync_state, contacts,
                 group_messages, mailbox, expunged, clock, calls, quiet>>

\* Line 509: UPDATE messages SET attachments_json=?, in_reply_to_message_id=?,
\* delivery_status='sent', is_read=1 WHERE id=?; then send_message returns,
\* to its caller's loop when send_group_message called it.
SendUpdate(w) ==
  /\ wk[w].pc = "s_update"
  /\ LET r == wk[w]
         arg == SendArgs[r.arg]
     IN /\ messages' =
             {IF m.id = r.row
              THEN [m EXCEPT !.attachments = safe_attachments(arg.attachments),
                             !.in_reply_to = arg.reply_to,
                             !.delivery_status = "sent", !.is_read = 1]
              ELSE m : m \in messages}
        /\ wk' = [wk EXCEPT ![w] =
             IF r.kind = "group"
             THEN [r EXCEPT !.pc = "g_loop", !.members = Tail(@), !.writes = @ + 1]
             ELSE [r EXCEPT !.pc = "done", !.writes = @ + 1]]
  /\ UNCHANGED <<accounts, settings, sync_state, next_id, contacts,
                 group_messages, mailbox, expunged, clock, calls, quiet>>

----------------------------------------------------------------------------
(* send_group_message. *)

\* chat_groups and group_members: group 1 has two members, group 2 none.
GroupIds == {0, 1, 2}
Groups == {1, 2}
GroupAccount(g) == 1
GroupMembers(g) ==
  IF g = 1 THEN <<"alice@example.com", "bob@example.com">> ELSE <<>>

\* Lines 523-529: the account, the group and its members are looked up.
GroupStart(w, a, g, arg) ==
  /\ Free(w)
  /\ calls < MaxCalls
  /\ calls' = calls + 1
  /\ wk' = [wk EXCEPT ![w] =
       LET r == [IdleWorker EXCEPT !.kind = "group", !.account = a,
                                   !.group = g, !.arg = arg, !.next0 = next_id,
                                   !.glog0 = Cardinality(group_messages)]
       IN IF a \notin Accounts \/ g \notin Groups \/ GroupAccount(g) # a
          THEN [r EXCEPT !.pc = "error", !.err = "Gruppe oder Konto nicht gefunden."]
          ELSE IF GroupMembers(g) = <<>>
          THEN [r EXCEPT !.pc = "error", !.err = "Gruppe hat keine Mitglieder."]
          ELSE [r EXCEPT !.pc = "g_loop", !.members = GroupMembers(g)]]
  /\ quiet' = [x \in Accounts |-> "no"]
  /\ UNCHANGED <<accounts, settings, sync_state, messages, next_id, contacts,
                 group_messages, mailbox, expunged, clock>>

\* Lines 531-545: send_message for the next member; after the last one the
\* group_messages row is written and the call returns.
GroupLoop(w) ==
  /\ wk[w].pc = "g_loop"
  /\ LET r == wk[w] IN
     IF r.members # <<>>
     THEN /\ wk' = [wk EXCEPT ![w] = Compose(r, r.account, Head(r.members), r.arg)]
          /\ UNCHANGED group_messages
     ELSE /\ group_messages' = group_messages \cup
               {[id |-> Cardinality(group_messages) + 1, account_id |-> r.account, group_id |-> r.group]}
          /\ wk' = [wk EXCEPT ![w] = [r EXCEPT !.pc = "done", !.logged = TRUE]]
  /\ UNCHANGED <<accounts, settings, sync_state, messages, next_id, contacts,
                 mailbox, expunged, clock, calls, quiet>>

----------------------------------------------------------------------------
(* Specifications. *)

SyncStep(w) ==
  \/ \E a \in AccountIds : SyncStart(w, a)
  \/ SyncConnect(w)
  \/ SyncSearch(w)
  \/ SyncItem(w)
  \/ SyncReceipt(w)
  \/ SyncContact(w)
  \/ SyncInsert(w)
  \/ SyncUpdate(w)
  \/ SyncCommit(w)
  \/ SyncLogout(w)

SendStep(w) ==
  \/ \E a \in AccountIds, arg \in 1..Len(SendArgs) : SendStart(w, a, arg)
  \/ SendDispatch(w)
  \/ SendContact(w)
  \/ SendInsert(w)
  \/ SendUpdate(w)
  \/ \E a \in AccountIds, g \in GroupIds, arg \in 1..Len(SendArgs) : GroupStart(w, a, g, arg)
  \/ GroupLoop(w)

\* The engine with one request thread: polls, sends and group sends one
\* after the other, while mail arrives, items are expunged and settings
\* change.
Next ==
  \/ \E k \in MailKeys : Deliver(k)
  \/ \E u \in 1..MaxUid : Expunge(u)
  \/ \E value \in {"0", "1"} : PostSettings("filter_noreply", value)
  \/ SyncStep(1)
  \/ SendStep(1)

Spec == Init /\ [][Next]_vars

\* The items that differ in how the watermark, the dedup key and the
\* receipt path treat them.
SyncKeys == {"normal", "noid", "noreply", "receipt"}

\* The polls, against a mailbox that grows and shrinks.
NextSync ==
  \/ \E k \in SyncKeys : Deliver(k)
  \/ \E u \in 1..MaxUid : Expunge(u)
  \/ SyncStep(1)

SpecSync == Init /\ [][NextSync]_vars

\* The polls, against a mailbox that grows while the settings change.
NextFilter ==
  \/ \E k \in MailKeys : Deliver(k)
  \/ \E value \in {"0", "1"} : PostSettings("filter_noreply", value)
  \/ SyncStep(1)

SpecFilter == Init /\ [][NextFilter]_vars

\* The items that differ in what they have to store: a text, nothing, or
\* a file only, with and without a Message-ID.
ContentKeys == {"normal", "empty", "attach", "attach_noid", "receipt"}

\* The polls, against a mailbox that grows by such items.
NextContent ==
  \/ \E k \in ContentKeys : Deliver(k)
  \/ SyncStep(1)

SpecContent == Init /\ [][NextContent]_vars

\* Multipart items with more than one part of a type: two with content, a
\* blank one before one with content, an attached text before the body.
ExtractKeys == {"two_texts", "blank_first", "attached_text", "receipt"}

NextExtract ==
  \/ \E k \in ExtractKeys : Deliver(k)
  \/ SyncStep(1)

SpecExtract == Init /\ [][NextExtract]_vars

\* Two request threads polling the account at once while mail arrives.
RaceKeys == {"normal", "receipt"}

NextRace ==
  \/ \E k \in RaceKeys : Deliver(k)
  \/ SyncStep(1)
  \/ SyncStep(2)

SpecRace == Init /\ [][NextRace]_vars

\* One request thread polling while mail arrives; a call that has begun
\* runs on until it returns or raises (nothing in sync_account waits for
\* another thread but the store lock, which every holder releases).
Running(w) == SyncStep(w) /\ ~Free(w)

NextLogout ==
  \/ \E k \in RaceKeys : Deliver(k)
  \/ SyncStep(1)

SpecLogout == Init /\ [][NextLogout]_vars /\ WF_vars(Running(1))

\* A mailbox of n items, bulk mail but for the two newest.
BigMailbox(n) ==
  [i \in 1..n |-> IF i = n THEN "receipt" ELSE IF i = n - 1 THEN "normal" ELSE "noreply"]

\* The account created with a mailbox that already holds FETCH_LIMIT items
\* or up to MaxUid more.
InitBig ==
  /\ accounts = [a \in Accounts |-> DefaultConfig]
  /\ settings = DEFAULT_SETTINGS
  /\ sync_state = {}
  /\ messages = {}
  /\ next_id = 1
  /\ contacts = {}
  /\ group_messages = {}
  /\ mailbox \in {BigMailbox(FETCH_LIMIT + d) : d \in 0..MaxUid}
  /\ expunged = {}
  /\ clock = 1
  /\ wk = [w \in Workers |-> IdleWorker]
  /\ calls = 0
  /\ quiet = [a \in Accounts |-> "no"]

\* The polls of such a mailbox, the server answering every search and
\* fetch with OK.
NextBig ==
  /\ SyncStep(1)
  /\ ~wk'[1].rejected
  /\ wk'[1].err \notin {"search", "fetch"}

SpecBig == InitBig /\ [][NextBig]_vars

\* The sends alone, for an account of any transport configuration.
NextSend == SendStep(1)

SpecSend == InitSend /\ [][NextSend]_vars

----------------------------------------------------------------------------
(* Claims. *)

\* The item a poll has just dealt with: the worker is back at the head of
\* the loop after item u, which it fetched (no server command of the poll
\* has failed and the item is in the mailbox).
JustHandled(w, u) ==
  /\ wk[w].kind = "sync"
  /\ wk[w].pc = "item"
  /\ wk[w].uid = u
  /\ u # 0
  /\ u \notin expunged
  /\ quiet[wk[w].account] = "running"

\* C1: a step of a poll never lowers the persisted watermark: after any
\* syncAccount call it is at least what it was before the call.
C1_WatermarkMonotone == [][\A a \in Accounts : LastUid(a)' >= LastUid(a)]_vars

\* A poll that began at a watermark whose item has since been expunged,
\* was answered with a lower UID and has committed.
C1_Witness ==
  /\ wk[1].kind = "sync"
  /\ wk[1].pc = "logout"
  /\ wk[1].last_uid >= 1
  /\ wk[1].last_uid \in expunged
  /\ wk[1].max_uid = wk[1].last_uid
  /\ LastUid(wk[1].account) = wk[1].max_uid

\* C2: a poll that runs after a poll of the same account has returned, with
\* nothing changed in between and every server command of both succeeding,
\* returns 0, adds no Message row and leaves the watermark as it read it.
C2_SecondPollSavesNothing ==
  \A w \in Workers :
    (/\ wk[w].kind = "sync"
     /\ wk[w].pc = "done"
     /\ wk[w].idem
     /\ quiet[wk[w].account] = "yes")
    => /\ wk[w].saved = 0
       /\ \A m \in messages : m.id < wk[w].next0
       /\ LastUid(wk[w].account) = wk[w].last_uid

\* C3: no two Messages of one account carry the same external message
\* identifier.
C3_UniqueExternalId ==
  \A m1 \in messages : \A m2 \in messages :
    (/\ m1.account_id = m2.account_id
     /\ m1.external_message_id # NULL
     /\ m1.external_message_id = m2.external_message_id)
    => m1.id = m2.id

\* A poll has just processed, as a normal message, an item whose identifier
\* a row of an earlier poll carries: that row is the only one, and the poll
\* has gone on to the next item without counting it.
C3_Witness ==
  \E u \in 1..Len(mailbox) :
    /\ JustHandled(1, u)
    /\ ~IsMdn(Mail(mailbox[u]))
    /\ Classify(Mail(mailbox[u]), wk[1].settings) = "store"
    /\ Mail(mailbox[u]).mid # NULL
    /\ wk[1].saved = 0
    /\ Cardinality({m \in messages :
                      m.external_message_id = Mail(mailbox[u]).mid}) = 1
    /\ \A m \in messages : m.id < wk[1].next0

\* C4: no inbound Message was made from an item that satisfies receipt
\* detection.
C4_ReceiptNeverStored ==
  \A m \in messages :
    m.direction = "inbound" => ~IsMdn(Mail(mailbox[m.src]))

\* A poll has just handled a receipt that matches no message and that the
\* noise and content rules would have let through: no row was made from it.
C4_Witness ==
  \E u \in 1..Len(mailbox) :
    /\ JustHandled(1, u)
    /\ IsMdn(Mail(mailbox[u]))
    /\ Classify(Mail(mailbox[u]), wk[1].settings) = "store"
    /\ \A m \in messages : m.src # u

\* C5 as claimed: no inbound Message was made from an item that is no
\* receipt and whose sender matches the no-reply pattern.
C5_NoReplyNeverStored ==
  \A m \in messages :
    (m.direction = "inbound" /\ ~IsMdn(Mail(mailbox[m.src])))
    => ~NOREPLY_RE(m.contact_email)

\* C5 as amended: a poll stores an inbound Message whose sender matches the
\* no-reply pattern only when the settings it read have filter_noreply off.
C5_NoReplyFiltered ==
  [][\A m \in messages' \ messages :
       (m.direction = "inbound" /\ NOREPLY_RE(m.contact_email))
       => \E w \in Workers :
            /\ wk[w].pc = "insert"
            /\ wk'[w].pc = "update"
            /\ ~setting_bool(wk[w].settings, "filter_noreply")]_vars

\* A poll that read filter_noreply on has just handled an item that is no
\* receipt, has a body and a sender matching the pattern: no row was made.
C5_Witness ==
  \E u \in 1..Len(mailbox) :
    /\ JustHandled(1, u)
    /\ ~IsMdn(Mail(mailbox[u]))
    /\ NOREPLY_RE(Mail(mailbox[u]).from)
    /\ extract_bodies(Mail(mailbox[u]), TRUE).text # <<>>
    /\ setting_bool(wk[1].settings, "filter_noreply")
    /\ \A m \in messages : m.src # u

\* The identifier under which the transport delivered the outbound message
\* stored as row id (the composed message carries none of its own).
TransmittedId(id) ==
  CASE id = 1 -> "w1@mta"
    [] id = 2 -> "w2@mta"
    [] OTHER -> "w3@mta"

\* C6: once a poll has handled a receipt that names the identifier of an
\* outbound Message persisted before the poll began, that row's
\* delivery_status is read and its read_at is set.
C6_ReceiptMarksRead ==
  \A w \in Workers : \A m \in messages : \A u \in 1..Len(mailbox) :
    (/\ m.direction = "outbound"
     /\ m.id < wk[w].next0
     /\ JustHandled(w, u)
     /\ IsMdn(Mail(mailbox[u]))
     /\ \E i \in 1..Len(Candidates(Mail(mailbox[u]))) :
          Candidates(Mail(mailbox[u]))[i] \in
            {m.external_message_id, TransmittedId(m.id)})
    => (m.delivery_status = "read" /\ m.read_at # 0)

\* The strategy the last attempt of the worker's dispatch ended with.
LastOutcome(w) == wk[w].attempts[Len(wk[w].attempts)].outcome

\* C8: a sendMessage call that ended in an error has written nothing to the
\* store, and a Message row of a call exists only after an attempt of its
\* dispatch succeeded.
C8_SendAllOrNothing ==
  \A w \in Workers :
    /\ (wk[w].kind = "send" /\ wk[w].pc = "error")
       => /\ wk[w].writes = 0
          /\ \A m \in messages : m.id < wk[w].next0
    /\ (wk[w].kind \in {"send", "group"} /\ wk[w].writes > 0)
       => (wk[w].attempts # <<>> /\ LastOutcome(w) = "ok")

\* A send failed in the dispatch while the store holds the Message and the
\* Contact of an earlier send.
C8_Witness ==
  /\ wk[1].kind = "send"
  /\ wk[1].pc = "error"
  /\ wk[1].attempts # <<>>
  /\ messages # {}
  /\ contacts # {}

\* C9: in auto mode the attempts follow [ssl, starttls, plain] on port 465
\* and [starttls, ssl, plain] otherwise, each made only after all before it
\* failed and none after a success; after a success the send does not fail
\* and returns with its Message stored as sent.
C9_AutoOrder ==
  \A w \in Workers :
    (wk[w].kind = "send" /\ accounts[1].smtp_security = "auto" /\ wk[w].attempts # <<>>)
    => LET order == IF accounts[1].smtp_port = 465
                    THEN <<"ssl", "starttls", "plain">>
                    ELSE <<"starttls", "ssl", "plain">>
           n == Len(wk[w].attempts)
       IN /\ n <= 3
          /\ \A i \in 1..n : wk[w].attempts[i].method = order[i]
          /\ \A i \in 1..(n - 1) : wk[w].attempts[i].outcome = "transport_error"
          /\ LastOutcome(w) = "ok" => wk[w].pc # "error"
          /\ wk[w].pc = "done"
             => /\ LastOutcome(w) = "ok"
                /\ \E m \in messages :
                     /\ m.id = wk[w].row
                     /\ m.direction = "outbound"
                     /\ m.delivery_status = "sent"

\* On port 465 the implicit-TLS attempt failed, the STARTTLS attempt
\* succeeded and the send has returned.
C9_Witness ==
  /\ accounts[1] = [smtp_security |-> "auto", smtp_port |-> 465]
  /\ wk[1].kind = "send"
  /\ wk[1].pc = "done"
  /\ wk[1].attempts = <<[method |-> "ssl", outcome |-> "transport_error"],
                        [method |-> "starttls", outcome |-> "ok"]>>

\* C10: when a member's send fails in sendGroupMessage, the call ends in
\* that error, the failed send is the last one attempted (the members
\* before it, in order, all succeeded) and no group_messages row is written.
C10_GroupAbortsOnFailure ==
  \A w \in Workers :
    (wk[w].kind = "group" /\ \E i \in 1..Len(wk[w].tried) : ~wk[w].tried[i].ok)
    => LET n == Len(wk[w].tried)
       IN /\ wk[w].pc = "error"
          /\ ~wk[w].tried[n].ok
          /\ \A i \in 1..(n - 1) : wk[w].tried[i].ok
          /\ \A i \in 1..n : wk[w].tried[i].to = GroupMembers(wk[w].group)[i]
          /\ ~wk[w].logged
          /\ Cardinality(group_messages) = wk[w].glog0

\* The send to the first of two members failed: the call has ended in the
\* error with one send attempted.
C10_Witness ==
  /\ wk[1].kind = "group"
  /\ wk[1].pc = "error"
  /\ Len(GroupMembers(wk[1].group)) = 2
  /\ Len(wk[1].tried) = 1
  /\ ~wk[1].tried[1].ok

\* C11: whenever no poll is between an INSERT and its UPDATE, every inbound
\* Message has a non-empty plain body, a non-empty HTML body or at least
\* one entry in its stored attachment manifest.
C11_InboundHasContent ==
  (\A w \in Workers : wk[w].pc # "update")
  => \A m \in messages :
       m.direction = "inbound"
       => (m.body # <<>> \/ m.body_html # <<>> \/ m.attachments # <<>>)

\* C12: every outbound Message has delivery status sent or read and read
\* flag true, and the Contact of its recipient exists.
C12_OutboundReadWithContact ==
  \A m \in messages :
    m.direction = "outbound"
    => /\ m.delivery_status \in {"sent", "read"}
       /\ m.is_read = 1
       /\ \E c \in contacts :
            c.account_id = m.account_id /\ c.email = m.contact_email

\* C13: a poll whose connection, login or select failed ends in that error
\* (after closing the session it opened) and the persisted watermark is
\* the one the poll read when it began.
C13_ConnectFailureAborts ==
  \A w \in Workers :
    (wk[w].kind = "sync" /\ wk[w].err \in {"connect", "login", "select"})
    => /\ wk[w].pc \in {"logout", "error"}
       /\ wk[w].pc = "logout" => wk[w].failing
       /\ LastUid(wk[w].account) = wk[w].last_uid

\* A poll that began at a watermark an earlier poll had set has failed to
\* log in, closed its session and raised.
C13_Witness ==
  /\ wk[1].kind = "sync"
  /\ wk[1].pc = "error"
  /\ wk[1].err = "login"
  /\ wk[1].session = "closed"
  /\ wk[1].last_uid >= 1
  /\ LastUid(wk[1].account) = wk[1].last_uid

\* C14: a poll in which the mailbox answered a command with a status other
\* than OK ends in an error, not in a count, and leaves the watermark as
\* the poll read it.
C14_RejectedCommandAborts ==
  \A w \in Workers :
    (wk[w].kind = "sync" /\ wk[w].rejected /\ wk[w].pc \in {"done", "error"})
    => /\ wk[w].pc = "error"
       /\ LastUid(wk[w].account) = wk[w].last_uid

\* C15: when every strategy of the auto list failed with a transport-class
\* error, the send ends in the one aggregated error, which names the error
\* of the last strategy attempted, and has written nothing to the store.
C15_AutoExhausted ==
  \A w \in Workers :
    (/\ wk[w].kind \in {"send", "group"}
     /\ ~Forced(accounts[1].smtp_security)
     /\ Len(wk[w].attempts) = 3
     /\ \A i \in 1..3 : wk[w].attempts[i].outcome = "transport_error")
    => /\ wk[w].pc = "error"
       /\ wk[w].err = "SMTP Versand fehlgeschlagen"
       /\ wk[w].cause = wk[w].attempts[3].method
       /\ wk[w].writes = 0
       /\ wk[w].kind = "send" => \A m \in messages : m.id < wk[w].next0

\* On port 587 STARTTLS, implicit TLS and plain have all failed, after an
\* earlier send had stored a Message.
C15_Witness ==
  /\ accounts[1] = [smtp_security |-> "auto", smtp_port |-> 587]
  /\ wk[1].kind = "send"
  /\ wk[1].pc = "error"
  /\ Len(wk[1].attempts) = 3
  /\ wk[1].attempts[3].outcome = "transport_error"
  /\ wk[1].cause = "plain"
  /\ messages # {}

\* C16: with security mode ssl, starttls or plain a send makes exactly one
\* attempt, with the strategy of that name, and when it fails the send ends
\* in that strategy's own error, not in the aggregated one.
C16_ForcedSingleStrategy ==
  \A w \in Workers :
    (/\ wk[w].kind \in {"send", "group"}
     /\ accounts[1].smtp_security \in {"ssl", "starttls", "plain"}
     /\ wk[w].attempts # <<>>)
    => /\ Len(wk[w].attempts) = 1
       /\ wk[w].attempts[1].method = accounts[1].smtp_security
       /\ wk[w].attempts[1].outcome # "ok"
          => /\ wk[w].pc = "error"
             /\ wk[w].err = "raised"
             /\ wk[w].cause = accounts[1].smtp_security

\* The one STARTTLS attempt of a starttls account failed with a
\* transport-class error, which the caller got.
C16_Witness ==
  /\ accounts[1].smtp_security = "starttls"
  /\ wk[1].kind = "send"
  /\ wk[1].pc = "error"
  /\ wk[1].attempts = <<[method |-> "starttls", outcome |-> "transport_error"]>>
  /\ wk[1].cause = "starttls"

\* C17: when a poll raised after it had saved Messages and before it
\* persisted the watermark, the next poll of the account ends with no
\* Message of its own made from an item that already has one.
C17_ReplayAddsNothing ==
  \A w \in Workers :
    (wk[w].kind = "sync" /\ wk[w].replay /\ wk[w].pc = "done")
    => \A m1 \in messages : \A m2 \in messages :
         (m1.id >= wk[w].next0 /\ m2.id < wk[w].next0) => m1.src # m2.src

\* A poll has persisted its watermark (and not yet closed the session).
Committed(w) ==
  /\ wk[w].kind = "sync"
  /\ wk[w].pc = "logout"
  /\ ~wk[w].failing
  /\ wk[w].top # 0

\* C19: once a poll has persisted its watermark, every item of the mailbox
\* with a UID above the watermark the poll read and at most the persisted
\* one was fetched and parsed by that poll.
C19_WatermarkCoversProcessed ==
  \A w \in Workers :
    Committed(w)
    => \A u \in (1..Len(mailbox)) \ expunged :
         (wk[w].last_uid < u /\ u <= LastUid(wk[w].account)) => u \in wk[w].routed

\* C20: once a poll whose search returned a batch has persisted its
\* watermark, the watermark is the larger of the one the poll read and the
\* highest UID of the batch, whatever was saved.
C20_WatermarkIsMax ==
  \A w \in Workers :
    Committed(w)
    => LastUid(wk[w].account) =
         IF wk[w].top > wk[w].last_uid THEN wk[w].top ELSE wk[w].last_uid

\* A poll that saved nothing of its batch has moved the watermark up to
\* the batch's highest UID.
C20_Witness ==
  /\ Committed(1)
  /\ wk[1].saved = 0
  /\ wk[1].last_uid >= 1
  /\ wk[1].top > wk[1].last_uid
  /\ LastUid(wk[1].account) = wk[1].top

\* C18: with two polls of the account running at once, no step takes the
\* persisted watermark from a value to a lower one.
C18_WatermarkMonotoneConcurrent ==
  [][\A r \in sync_state :
       \E r2 \in sync_state' :
         r2.account_id = r.account_id /\ r2.last_uid >= r.last_uid]_vars

\* The UIDs a search from above watermark lo matches.
Unseen(lo) == {u \in (1..Len(mailbox)) \ expunged : u > lo}

\* C21: the items a poll has fetched are at most FETCH_LIMIT, and each is
\* among the FETCH_LIMIT highest UIDs of the unseen range; a poll that ran
\* over its whole batch has fetched exactly those.
C21_FetchesNewestOnly ==
  \A w \in Workers :
    (wk[w].kind = "sync" /\ wk[w].top # 0 /\ wk[w].top > wk[w].last_uid)
    => /\ Cardinality(wk[w].routed) <= FETCH_LIMIT
       /\ \A u \in wk[w].routed :
            /\ u \in Unseen(wk[w].last_uid)
            /\ Cardinality({v \in Unseen(wk[w].last_uid) : v > u}) < FETCH_LIMIT
       /\ Committed(w)
          => \A u \in Unseen(wk[w].last_uid) :
               Cardinality({v \in Unseen(wk[w].last_uid) : v > u}) < FETCH_LIMIT
               => u \in wk[w].routed

\* A poll of a mailbox of more than FETCH_LIMIT items has run over its
\* batch: it fetched FETCH_LIMIT items, the oldest of the mailbox not
\* among them.
C21_Witness ==
  /\ Committed(1)
  /\ wk[1].last_uid = 0
  /\ Len(mailbox) > FETCH_LIMIT
  /\ Cardinality(wk[1].routed) = FETCH_LIMIT
  /\ 1 \notin wk[1].routed
  /\ Len(mailbox) \in wk[1].routed

\* C22: a step of the loop whose fetch did not raise and brought no payload
\* (status other than OK, or nothing to parse) goes on to the next item of
\* the batch with the count and the store as they were and without failing
\* the call.
C22_UnfetchedIsSkipped ==
  [][\A w \in Workers :
       (/\ wk[w].kind = "sync" /\ wk[w].pc = "item" /\ wk[w].uids # <<>>
        /\ wk'[w] # wk[w]
        /\ wk'[w].err # "fetch"
        /\ Head(wk[w].uids) \notin wk'[w].routed)
       => /\ wk'[w].pc = "item"
          /\ wk'[w].uids = Tail(wk[w].uids)
          /\ ~wk'[w].failing
          /\ wk'[w].saved = wk[w].saved
          /\ messages' = messages]_vars

\* A poll of two items got no payload for the first, stored the second
\* and is about to return its count.
C22_Witness ==
  /\ Committed(1)
  /\ wk[1].last_uid = 0
  /\ Len(mailbox) = 2
  /\ 1 \notin wk[1].routed
  /\ 2 \in wk[1].routed
  /\ wk[1].saved = 1
  /\ \E m \in messages : m.direction = "inbound"

\* C23: a poll that opened a session eventually issues logout on it, has
\* done so when it returns or raises, and the step that issues logout ends
\* the call as the try block left it (the count for a call that did not
\* fail, its error for one that did), whatever logout itself did.
C23_SessionAlwaysClosed ==
  /\ \A w \in Workers : (wk[w].session = "open") ~> (wk[w].session = "closed")
  /\ [](\A w \in Workers :
          (wk[w].kind = "sync" /\ wk[w].pc \in {"done", "error"})
          => wk[w].session # "open")
  /\ [][\A w \in Workers :
          (wk[w].kind = "sync" /\ wk[w].pc = "logout" /\ wk'[w] # wk[w])
          => /\ wk'[w].session = "closed"
             /\ wk'[w].pc = (IF wk[w].failing THEN "error" ELSE "done")
             /\ wk'[w].saved = wk[w].saved
             /\ wk'[w].err = wk[w].err
             /\ wk'[w].failing = wk[w].failing]_vars

\* A poll lost its connection in a fetch, closed the session it had opened
\* and raised.
C23_Witness ==
  /\ wk[1].kind = "sync"
  /\ wk[1].pc = "error"
  /\ wk[1].err = "fetch"
  /\ wk[1].session = "closed"

\* C24: in auto mode a strategy is attempted after another only when that
\* one failed with an error of the caught classes; an attempt that failed
\* with any other error is the last of the dispatch, and the send has ended
\* in that strategy's own error with nothing written.
C24_OnlyTransportFallsThrough ==
  \A w \in Workers :
    (/\ wk[w].kind \in {"send", "group"}
     /\ ~Forced(accounts[1].smtp_security)
     /\ wk[w].attempts # <<>>)
    => LET n == Len(wk[w].attempts)
       IN \A i \in 1..n :
            /\ i < n => wk[w].attempts[i].outcome = "transport_error"
            /\ wk[w].attempts[i].outcome = "other_error"
               => /\ i = n
                  /\ wk[w].pc = "error"
                  /\ wk[w].err = "raised"
                  /\ wk[w].cause = wk[w].attempts[i].method
                  /\ wk[w].writes = 0

\* On port 587 STARTTLS failed with a transport error, implicit TLS with
\* an error of another kind, and plain was not attempted.
C24_Witness ==
  /\ accounts[1] = [smtp_security |-> "auto", smtp_port |-> 587]
  /\ wk[1].kind = "send"
  /\ wk[1].pc = "error"
  /\ wk[1].attempts = <<[method |-> "starttls", outcome |-> "transport_error"],
                        [method |-> "ssl", outcome |-> "other_error"]>>

\* The item is a receipt none of whose candidates names an outbound Message
\* of the account.
UnmatchedReceipt(a, u) ==
  LET msg == Mail(mailbox[u])
  IN /\ IsMdn(msg)
     /\ \A i \in 1..Len(Candidates(msg)) : FindOutbound(a, Candidates(msg)[i]) = {}

\* C25: the steps a poll spends on a receipt that matches no outbound
\* Message leave every Message as it was and insert none, the last of them
\* goes on to the next item of the batch, and no poll examines such an item
\* that the poll before it, which returned its count, had examined already.
C25_UnmatchedReceiptDiscarded ==
  /\ [][\A w \in Workers :
          (/\ wk[w].kind = "sync" /\ wk[w].pc = "receipt"
           /\ wk'[w] # wk[w]
           /\ UnmatchedReceipt(wk[w].account, wk[w].uid))
          => /\ messages' = messages
             /\ wk'[w].saved = wk[w].saved
             /\ \/ wk'[w].pc = "receipt" /\ wk'[w].uids = wk[w].uids
                \/ wk'[w].pc = "item" /\ wk'[w].uids = Tail(wk[w].uids)]_vars
  /\ [](\A w \in Workers :
          wk[w].kind = "sync"
          => \A u \in wk[w].routed \cap wk[w].seen :
               ~UnmatchedReceipt(wk[w].account, u))

\* The parts of the walk that carry no attachment disposition and have one
\* of the content types.
Eligible(msg, types) ==
  SelectSeq(msg.parts, LAMBDA p : p.dispo # "attachment" /\ p.ctype \in types)

\* The decoded payload of the first such part, nothing when there is none.
FirstPart(msg, types) ==
  IF Eligible(msg, types) = <<>> THEN <<>>
  ELSE decode_payload(Eligible(msg, types)[1])

\* The decoded payload of the first such part that has any.
FirstFilled(msg, types) ==
  LET filled == SelectSeq(Eligible(msg, types), LAMBDA p : decode_payload(p) # <<>>)
  IN IF filled = <<>> THEN <<>> ELSE decode_payload(filled[1])

\* Lines 239-243 for a text taken from a text/plain part.
Trimmed(text) ==
  IF setting_bool(settings, "strip_replies") /\ text # <<>>
  THEN strip_quoted_text(text) ELSE text

\* C26 as claimed: the body of a Message made from a multipart item with a
\* non-attachment text/plain part is the text of the first such part, and
\* its HTML body is the payload of the first non-attachment HTML part.
C26_FirstPartWins ==
  \A m \in messages :
    (m.direction = "inbound" /\ IsMultipart(Mail(mailbox[m.src])))
    => LET msg == Mail(mailbox[m.src])
       IN /\ Eligible(msg, {"text/plain"}) # <<>>
             => m.body = Trimmed(FirstPart(msg, {"text/plain"}))
          /\ m.body_html = FirstPart(msg, HTML_TYPES)

\* C26 as amended: the body of a Message made from a multipart item is the
\* text of the first non-attachment text/plain part whose decoded payload is
\* not empty, and its HTML body is the payload of the first non-attachment
\* HTML part whose decoded payload is not empty; parts after the one taken
\* change neither.
C26_FirstFilledPartWins ==
  \A m \in messages :
    (m.direction = "inbound" /\ IsMultipart(Mail(mailbox[m.src])))
    => LET msg == Mail(mailbox[m.src])
       IN /\ FirstFilled(msg, {"text/plain"}) # <<>>
             => m.body = Trimmed(FirstFilled(msg, {"text/plain"}))
          /\ m.body_html = FirstFilled(msg, HTML_TYPES)

\* Messages were made from an item with two text and two HTML parts and
\* from an item whose first text part is an attachment.
C26_Witness ==
  /\ \E m \in messages :
       /\ mailbox[m.src] = "two_texts"
       /\ m.body = <<<<"first">>>>
       /\ m.body_html = <<<<"<p>", "one", "</p>">>>>
  /\ \E m \in messages :
       /\ mailbox[m.src] = "attached_text"
       /\ m.body = <<<<"body">>>>

====
